---- MODULE Spec2Model ----
(***************************************************************************)
(* Model of the EmojiData class of emojify                                 *)
(* (projects/emojify/src/lib/data-source/index.ts).                        *)
(*                                                                         *)
(* A JavaScript string is a sequence of UTF-16 code units.  An ASCII code  *)
(* unit is written as the one-character string of that character, any      *)
(* other code unit as its four hex digits ("D83D", "DFFB", "200D").        *)
(* `undefined` / `null` is the empty tuple, a present value v is <<v>>.    *)
(* A number that the code computes by division is kept as a reduced        *)
(* fraction [num, den].                                                    *)
(***************************************************************************)
EXTENDS Integers, Sequences, FiniteSets, TLC

VARIABLES emojis, emojiValMap, emojiUnifiedValMap, emojiCategoryLookUp,
          emojiUnicodeRegex, op, arg, limitArg, emojiArg, parts, result

vars == <<emojis, emojiValMap, emojiUnifiedValMap, emojiCategoryLookUp,
          emojiUnicodeRegex, op, arg, limitArg, emojiArg, parts, result>>

index == <<emojis, emojiValMap, emojiUnifiedValMap, emojiCategoryLookUp,
           emojiUnicodeRegex>>

sheetColumns == 61
sheetRows == 61

\* Bounds of the model.
MaxRecords == 2
MaxLimit == 3
MaxPieces == 2

Null == <<>>
Some(v) == <<v>>

(***************************************************************************)
(* String primitives.                                                      *)
(***************************************************************************)
UpperCase == [A |-> "a", B |-> "b", C |-> "c", D |-> "d", E |-> "e",
              F |-> "f", G |-> "g", H |-> "h", I |-> "i", J |-> "j",
              K |-> "k", L |-> "l", M |-> "m", N |-> "n", O |-> "o",
              P |-> "p", Q |-> "q", R |-> "r", S |-> "s", T |-> "t",
              U |-> "u", V |-> "v", W |-> "w", X |-> "x", Y |-> "y",
              Z |-> "z"]

Digits == {"0", "1", "2", "3", "4", "5", "6", "7", "8", "9"}

\* String.prototype.toLowerCase, code unit by code unit.
ToLowerCase(s) ==
    [i \in 1..Len(s) |-> IF s[i] \in DOMAIN UpperCase THEN UpperCase[s[i]]
                                                      ELSE s[i]]

\* TRUE iff pat occurs in s at 0-based position i.
OccursAt(s, pat, i) ==
    /\ i >= 0
    /\ i + Len(pat) <= Len(s)
    /\ \A k \in 1..Len(pat) : s[i + k] = pat[k]

\* String.prototype.indexOf: 0-based position of the first occurrence, or -1.
IndexOf(s, pat) ==
    LET hits == {i \in 0..Len(s) : OccursAt(s, pat, i)}
    IN  IF hits = {} THEN -1
        ELSE CHOOSE i \in hits : \A j \in hits : i <= j

\* String.prototype.substring(0, end); a negative end counts as 0.
Substring0(s, end) ==
    LET e == IF end < 0 THEN 0 ELSE IF end > Len(s) THEN Len(s) ELSE end
    IN  SubSeq(s, 1, e)

SkinToneLit == <<"s", "k", "i", "n", "-", "t", "o", "n", "e", "-">>
ColonSkinToneLit == <<":", ":">> \o SkinToneLit
NullLit == <<"n", "u", "l", "l">>

\* Number of leading colons of s.
LeadingColons(s) ==
    LET ns == {n \in 0..Len(s) : \A k \in 1..n : s[k] = ":"}
    IN  CHOOSE n \in ns : \A m \in ns : m <= n

\* Number of trailing colons of s.
TrailingColons(s) ==
    LET ns == {n \in 0..Len(s) : \A k \in 1..n : s[Len(s) + 1 - k] = ":"}
    IN  CHOOSE n \in ns : \A m \in ns : m <= n

\* StripColons with the pattern /^(:+)/: the trailing colons stay.
StripColons_LeadingOnly(s) == SubSeq(s, LeadingColons(s) + 1, Len(s))

\* emojiStrWithColon.replace(/^(:+)|(:+)$/g, '')
StripColons(s) ==
    LET rest == SubSeq(s, LeadingColons(s) + 1, Len(s))
    IN  SubSeq(rest, 1, Len(rest) - TrailingColons(rest))

\* Length of the run of digits of s that starts at 0-based position i.
DigitRun(s, i) ==
    LET ns == {n \in 0..(Len(s) - i) : \A k \in 1..n : s[i + k] \in Digits}
    IN  CHOOSE n \in ns : \A m \in ns : m <= n

\* emojiStr.match(/skin-tone-(\d+)/): the captured digits of the first
\* match, or null.
MatchSkinTone(s) ==
    LET hits == {i \in 0..Len(s) : /\ OccursAt(s, SkinToneLit, i)
                                   /\ DigitRun(s, i + Len(SkinToneLit)) > 0}
    IN  IF hits = {} THEN Null
        ELSE LET i == CHOOSE h \in hits : \A j \in hits : h <= j
                 d == i + Len(SkinToneLit)
             IN  Some(SubSeq(s, d + 1, d + DigitRun(s, d)))

\* The template literal `skin-tone-${skinTone}`.
SkinToneKey(skinTone) ==
    SkinToneLit \o (IF skinTone = Null THEN NullLit ELSE skinTone[1])

(***************************************************************************)
(* Fractions.                                                              *)
(***************************************************************************)
RECURSIVE Gcd(_, _)
Gcd(a, b) == IF b = 0 THEN a ELSE Gcd(b, a % b)

Frac(n, d) == LET g == Gcd(n, d) IN
              IF n = 0 THEN [num |-> 0, den |-> 1]
              ELSE [num |-> n \div g, den |-> d \div g]

\* n * f for an integer n and a fraction f.
Times(n, f) == Frac(n * f.num, f.den)

(***************************************************************************)
(* The dataset (emoji.json, an IEmoji[]).  The file is an external build   *)
(* artifact; the model draws the dataset from the records of Pool, which   *)
(* follow the shapes of emoji-data.models.ts and the records quoted in the *)
(* tests.  Short names are lowercase, as in emoji-datasource.              *)
(***************************************************************************)
U2 == <<"1", "F", "3", "F", "B">>
U3 == <<"1", "F", "3", "F", "C">>

\* The composite key of a two-person emoji: the unified code of the modifier
\* joined with itself.
Twice(u) == u \o <<"-">> \o u

Variation(image, x, y) == [image |-> image, sheet_x |-> x, sheet_y |-> y]

Emoji(short_names, unified, image, x, y, category, char, variations) ==
    [short_name |-> short_names[1], short_names |-> short_names,
     unified |-> unified, image |-> image, sheet_x |-> x, sheet_y |-> y,
     category |-> category, char |-> char, skin_variations |-> variations]

smileName == <<"s", "m", "i", "l", "e">>
grinName == <<"g", "r", "i", "n">>
waveName == <<"w", "a", "v", "e">>
plusOneName == <<"+", "1">>
thumbsupName == <<"t", "h", "u", "m", "b", "s", "u", "p">>
manName == <<"m", "a", "n">>
manBoyName == <<"m", "a", "n", "-", "b", "o", "y">>
starName == <<"k", "e", "y", "c", "a", "p", "_", "s", "t", "a", "r">>
holdingHandsName == <<"p", "e", "o", "p", "l", "e", "_", "h", "o", "l", "d", "i", "n", "g", "_", "h", "a", "n", "d", "s">>
tone2Name == SkinToneLit \o <<"2">>
tone3Name == SkinToneLit \o <<"3">>

smileChar == <<"D83D", "DE04">>
waveChar == <<"D83D", "DC4B">>
plusOneChar == <<"D83D", "DC4D">>
manChar == <<"D83D", "DC68">>
manBoyChar == <<"D83D", "DC68", "200D", "D83D", "DC66">>
starChar == <<"*", "FE0F", "20E3">>
holdingHandsChar == <<"D83E", "DDD1", "200D", "D83E", "DD1D", "200D", "D83E", "DDD1">>
tone2Char == <<"D83C", "DFFB">>
tone3Char == <<"D83C", "DFFC">>

Pool ==
    << Emoji(<<smileName>>, <<"1", "F", "6", "0", "4">>, "1f604.png", 32, 50,
             "Smileys & Emotion", smileChar, Null),
       Emoji(<<waveName>>, <<"1", "F", "4", "4", "B">>, "1f44b.png", 13, 40,
             "People & Body", waveChar,
             Some((U2 :> Variation("1f44b-1f3fb.png", 13, 41))
               @@ (U3 :> Variation("1f44b-1f3fc.png", 13, 42)))),
       Emoji(<<plusOneName, thumbsupName>>, <<"1", "F", "4", "4", "D">>, "1f44d.png", 13, 52,
             "People & Body", plusOneChar,
             Some((U2 :> Variation("1f44d-1f3fb.png", 13, 53)))),
       Emoji(<<tone2Name>>, U2, "1f3fb.png", 0, 16,
             "Skin Tones", tone2Char, Null),
       Emoji(<<tone3Name>>, U3, "1f3fc.png", 0, 17,
             "Component", tone3Char, Null),
       Emoji(<<manName>>, <<"1", "F", "4", "6", "8">>, "1f468.png", 16, 20,
             "People & Body", manChar,
             Some((U2 :> Variation("1f468-1f3fb.png", 16, 21)))),
       Emoji(<<manBoyName>>, <<"1", "F", "4", "6", "8", "-", "2", "0", "0", "D", "-", "1", "F", "4", "6", "6">>, "1f468-200d-1f466.png", 14, 33,
             "People & Body", manBoyChar, Null),
       Emoji(<<starName>>, <<"0", "0", "2", "A", "-", "F", "E", "0", "F", "-", "2", "0", "E", "3">>, "002a-fe0f-20e3.png", 0, 1,
             "Symbols", starChar, Null),
       Emoji(<<holdingHandsName>>, <<"1", "F", "9", "D", "1", "-", "2", "0", "0", "D", "-", "1", "F", "9", "1", "D", "-", "2", "0", "0", "D", "-", "1", "F", "9", "D", "1">>, "1f9d1-200d-1f91d-200d-1f9d1.png", 49, 28,
             "People & Body", holdingHandsChar,
             Some(((U2 \o <<"-">> \o U2) :> Variation("1f9d1-1f3fb-200d-1f91d-200d-1f9d1-1f3fb.png", 49, 29))
               @@ ((U2 \o <<"-">> \o U3) :> Variation("1f9d1-1f3fb-200d-1f91d-200d-1f9d1-1f3fc.png", 49, 30)))),
       Emoji(<<grinName, smileName>>, <<"1", "F", "6", "0", "1">>, "1f601.png", 32, 47,
             "Smileys & Emotion", smileChar, Null) >>

\* The ten categories of CategoryData, in order.
CategoryData == << "Activities", "Animals & Nature", "Component", "Flags",
                   "Food & Drink", "Objects", "People & Body",
                   "Smileys & Emotion", "Symbols", "Travel & Places" >>

\* The elements of a set of indices of Pool, in increasing order.
RECURSIVE Ascending(_)
Ascending(S) ==
    IF S = {} THEN <<>>
    ELSE LET m == CHOOSE x \in S : \A y \in S : x <= y
         IN  <<m>> \o Ascending(S \ {m})

Reverse(s) == [i \in 1..Len(s) |-> s[Len(s) + 1 - i]]

\* The datasets of the model: up to MaxRecords records of Pool, in the order
\* of Pool or in the opposite order.
Datasets ==
    LET picks == {S \in SUBSET (1..Len(Pool)) :
                      Cardinality(S) >= 1 /\ Cardinality(S) <= MaxRecords}
        inOrder == {[i \in 1..Cardinality(S) |-> Pool[Ascending(S)[i]]] : S \in picks}
    IN  inOrder \cup {Reverse(d) : d \in inOrder}

(***************************************************************************)
(* Array.prototype.sort with a comparator (a, b) => key(a) - key(b): a     *)
(* stable sort (ES2019) by ascending key.  keys[i] is the key of seq[i].   *)
(***************************************************************************)
StableSort(seq, keys) ==
    LET rank(i) == 1 + Cardinality({j \in 1..Len(seq) :
                         \/ keys[j] < keys[i]
                         \/ (keys[j] = keys[i] /\ j < i)})
    IN  [r \in 1..Len(seq) |-> seq[CHOOSE i \in 1..Len(seq) : rank(i) = r]]

(***************************************************************************)
(* Construction: initEmojiMap and initUnified.                             *)
(***************************************************************************)
\* Map.prototype.set that keeps the value a key already has.
MapSet_KeepFirst(m, k, v) ==
    [x \in (DOMAIN m) \cup {k} |-> IF x \in DOMAIN m THEN m[x] ELSE v]

\* Map.prototype.set
MapSet(m, k, v) == [x \in (DOMAIN m) \cup {k} |-> IF x = k THEN v ELSE m[x]]

\* Map.prototype.get
MapGet(m, k) == IF k \in DOMAIN m THEN Some(m[k]) ELSE Null

EmptyMap == [x \in {} |-> Null]

\* for (const name of eachEmoji.short_names) emojiValMap.set(name, eachEmoji)
RECURSIVE SetNames(_, _, _)
SetNames(m, e, n) ==
    IF n > Len(e.short_names) THEN m
    ELSE SetNames(MapSet(m, e.short_names[n], e), e, n + 1)

\* The name index after the loop of initEmojiMap over the first n records.
RECURSIVE InitValMap(_, _)
InitValMap(es, n) ==
    IF n = 0 THEN EmptyMap
    ELSE SetNames(InitValMap(es, n - 1), es[n], 1)

\* The character index after the loop of initEmojiMap over the first n records.
RECURSIVE InitUnifiedValMap(_, _)
InitUnifiedValMap(es, n) ==
    IF n = 0 THEN EmptyMap
    ELSE MapSet(InitUnifiedValMap(es, n - 1), es[n].char, es[n])

\* Array.prototype.filter by category.
FilterCategory(es, c) == SelectSeq(es, LAMBDA e : e.category = c)

\* The category lookup built by the second loop of initEmojiMap.
InitCategoryLookUp(es) ==
    LET modifierCategory == "Skin Tones"
        cats == {CategoryData[i] : i \in 1..Len(CategoryData)} \ {modifierCategory}
    IN  [c \in cats |-> FilterCategory(es, c)]

\* e.char.replace('*', '\\*'): the first '*' of the string gets a backslash.
EscapeStar(c) ==
    LET i == IndexOf(c, <<"*">>)
    IN  IF i = -1 THEN c
        ELSE SubSeq(c, 1, i) \o <<"\\", "*">> \o SubSeq(c, i + 2, Len(c))

\* initUnified that leaves the escaped chars in dataset order.
InitUnified_Unsorted(es) ==
    [i \in 1..Len(es) |-> EscapeStar(es[i].char)]

\* The alternatives of the regular expression of initUnified, in the order
\* of the pattern: the escaped chars sorted by length, longest first.
InitUnified(es) ==
    LET emojiChars == [i \in 1..Len(es) |-> EscapeStar(es[i].char)]
    IN  StableSort(emojiChars, [i \in 1..Len(es) |-> 0 - Len(emojiChars[i])])

(***************************************************************************)
(* The queries, as functions of the index.                                 *)
(***************************************************************************)
\* findImage that never looks at the variation.
FindImage_BaseOnly(actual, variation) ==
    [x |-> Times(actual.sheet_x, Frac(100, sheetColumns - 1)),
     y |-> Times(actual.sheet_y, Frac(100, sheetRows - 1)),
     sheetSizeX |-> 100 * sheetColumns,
     sheetSizeY |-> 100 * sheetRows,
     image |-> actual.image]

\* findImage that divides by the number of columns and rows.
FindImage_DivByCount(actual, variation) ==
    LET multiplyX == Frac(100, sheetColumns)
        multiplyY == Frac(100, sheetRows)
    IN  IF actual.skin_variations # Null /\ variation # Null
        THEN LET sv == actual.skin_variations[1]
                 u == variation[1].unified
                 uu == u \o <<"-">> \o u
                 foundEmoji == IF u \in DOMAIN sv THEN Some(sv[u])
                               ELSE IF uu \in DOMAIN sv THEN Some(sv[uu])
                               ELSE Null
             IN  [x |-> IF foundEmoji # Null
                        THEN Times(foundEmoji[1].sheet_x, multiplyX)
                        ELSE Frac(0, 1),
                  y |-> IF foundEmoji # Null
                        THEN Times(foundEmoji[1].sheet_y, multiplyY)
                        ELSE Frac(0, 1),
                  sheetSizeX |-> 100 * sheetColumns,
                  sheetSizeY |-> 100 * sheetRows,
                  image |-> IF foundEmoji # Null THEN foundEmoji[1].image ELSE ""]
        ELSE [x |-> Times(actual.sheet_x, multiplyX),
              y |-> Times(actual.sheet_y, multiplyY),
              sheetSizeX |-> 100 * sheetColumns,
              sheetSizeY |-> 100 * sheetRows,
              image |-> actual.image]

\* findImage that looks the variation up under the modifier's unified code
\* only.
FindImage_UnifiedOnly(actual, variation) ==
    LET multiplyX == Frac(100, sheetColumns - 1)
        multiplyY == Frac(100, sheetRows - 1)
    IN  IF actual.skin_variations # Null /\ variation # Null
        THEN LET sv == actual.skin_variations[1]
                 u == variation[1].unified
                 foundEmoji == IF u \in DOMAIN sv THEN Some(sv[u]) ELSE Null
             IN  [x |-> IF foundEmoji # Null
                        THEN Times(foundEmoji[1].sheet_x, multiplyX)
                        ELSE Frac(0, 1),
                  y |-> IF foundEmoji # Null
                        THEN Times(foundEmoji[1].sheet_y, multiplyY)
                        ELSE Frac(0, 1),
                  sheetSizeX |-> 100 * sheetColumns,
                  sheetSizeY |-> 100 * sheetRows,
                  image |-> IF foundEmoji # Null THEN foundEmoji[1].image ELSE ""]
        ELSE [x |-> Times(actual.sheet_x, multiplyX),
              y |-> Times(actual.sheet_y, multiplyY),
              sheetSizeX |-> 100 * sheetColumns,
              sheetSizeY |-> 100 * sheetRows,
              image |-> actual.image]

\* findImage that gives the zeroed descriptor for a record with
\* skin_variations when no modifier record is given.
FindImage_ZeroWithoutModifier(actual, variation) ==
    LET multiplyX == Frac(100, sheetColumns - 1)
        multiplyY == Frac(100, sheetRows - 1)
    IN  IF actual.skin_variations # Null
        THEN LET sv == actual.skin_variations[1]
                 foundEmoji ==
                     IF variation = Null THEN Null
                     ELSE IF variation[1].unified \in DOMAIN sv
                          THEN Some(sv[variation[1].unified])
                     ELSE IF Twice(variation[1].unified) \in DOMAIN sv
                          THEN Some(sv[Twice(variation[1].unified)])
                     ELSE Null
             IN  [x |-> IF foundEmoji # Null
                        THEN Times(foundEmoji[1].sheet_x, multiplyX)
                        ELSE Frac(0, 1),
                  y |-> IF foundEmoji # Null
                        THEN Times(foundEmoji[1].sheet_y, multiplyY)
                        ELSE Frac(0, 1),
                  sheetSizeX |-> 100 * sheetColumns,
                  sheetSizeY |-> 100 * sheetRows,
                  image |-> IF foundEmoji # Null THEN foundEmoji[1].image ELSE ""]
        ELSE [x |-> Times(actual.sheet_x, multiplyX),
              y |-> Times(actual.sheet_y, multiplyY),
              sheetSizeX |-> 100 * sheetColumns,
              sheetSizeY |-> 100 * sheetRows,
              image |-> actual.image]

\* findImage that gives the base record's image when the variation is
\* missing.
FindImage_FallbackToBase(actual, variation) ==
    LET multiplyX == Frac(100, sheetColumns - 1)
        multiplyY == Frac(100, sheetRows - 1)
    IN  IF actual.skin_variations # Null /\ variation # Null
        THEN LET sv == actual.skin_variations[1]
                 u == variation[1].unified
                 foundEmoji == IF u \in DOMAIN sv THEN Some(sv[u])
                               ELSE IF Twice(u) \in DOMAIN sv THEN Some(sv[Twice(u)])
                               ELSE Null
             IN  [x |-> IF foundEmoji # Null
                        THEN Times(foundEmoji[1].sheet_x, multiplyX)
                        ELSE Times(actual.sheet_x, multiplyX),
                  y |-> IF foundEmoji # Null
                        THEN Times(foundEmoji[1].sheet_y, multiplyY)
                        ELSE Times(actual.sheet_y, multiplyY),
                  sheetSizeX |-> 100 * sheetColumns,
                  sheetSizeY |-> 100 * sheetRows,
                  image |-> IF foundEmoji # Null THEN foundEmoji[1].image
                            ELSE actual.image]
        ELSE [x |-> Times(actual.sheet_x, multiplyX),
              y |-> Times(actual.sheet_y, multiplyY),
              sheetSizeX |-> 100 * sheetColumns,
              sheetSizeY |-> 100 * sheetRows,
              image |-> actual.image]

\* findImage(actual, variation?); variation is Null when it is not given or
\* undefined.
FindImage(actual, variation) ==
    LET sheetSizeX == 100 * sheetColumns
        sheetSizeY == 100 * sheetRows
        multiplyX == Frac(100, sheetColumns - 1)
        multiplyY == Frac(100, sheetRows - 1)
    IN  IF actual.skin_variations # Null /\ variation # Null
        THEN LET sv == actual.skin_variations[1]
                 u == variation[1].unified
                 uu == u \o <<"-">> \o u
                 foundEmoji == IF u \in DOMAIN sv THEN Some(sv[u])
                               ELSE IF uu \in DOMAIN sv THEN Some(sv[uu])
                               ELSE Null
             IN  [x |-> IF foundEmoji # Null
                        THEN Times(foundEmoji[1].sheet_x, multiplyX)
                        ELSE Frac(0, 1),
                  y |-> IF foundEmoji # Null
                        THEN Times(foundEmoji[1].sheet_y, multiplyY)
                        ELSE Frac(0, 1),
                  sheetSizeX |-> sheetSizeX,
                  sheetSizeY |-> sheetSizeY,
                  image |-> IF foundEmoji # Null THEN foundEmoji[1].image ELSE ""]
        ELSE [x |-> Times(actual.sheet_x, multiplyX),
              y |-> Times(actual.sheet_y, multiplyY),
              sheetSizeX |-> sheetSizeX,
              sheetSizeY |-> sheetSizeY,
              image |-> actual.image]

\* getImageData that cuts 14 code units off a compound query.
GetImageData_Strip14(valMap, emojiStr0) ==
    LET emojiStr == ToLowerCase(emojiStr0)
    IN  IF IndexOf(emojiStr, ColonSkinToneLit) = -1
        THEN LET emojiVal == MapGet(valMap, emojiStr)
             IN  IF emojiVal # Null /\ emojiVal[1].category # "Skin Tones"
                 THEN Some(FindImage(emojiVal[1], Null))
                 ELSE Null
        ELSE LET skinTone == MatchSkinTone(emojiStr)
                 skinVal == MapGet(valMap, SkinToneKey(skinTone))
                 emojiIdx == Substring0(emojiStr, Len(emojiStr) - 14)
                 emojiVal == MapGet(valMap, emojiIdx)
             IN  IF emojiVal # Null
                 THEN Some(FindImage(emojiVal[1], skinVal))
                 ELSE Null

\* getImageData(emojiStr) over the name index valMap.
GetImageData(valMap, emojiStr0) ==
    LET emojiStr == ToLowerCase(emojiStr0)
    IN  IF IndexOf(emojiStr, ColonSkinToneLit) = -1
        THEN LET emojiVal == MapGet(valMap, emojiStr)
             IN  IF emojiVal # Null /\ emojiVal[1].category # "Skin Tones"
                 THEN Some(FindImage(emojiVal[1], Null))
                 ELSE Null
        ELSE LET skinTone == MatchSkinTone(emojiStr)
                 skinVal == MapGet(valMap, SkinToneKey(skinTone))
                 emojiIdx == Substring0(emojiStr, Len(emojiStr) - 13)
                 emojiVal == MapGet(valMap, emojiIdx)
             IN  IF emojiVal # Null
                 THEN Some(FindImage(emojiVal[1], skinVal))
                 ELSE Null

\* getImageDataWithColon(emojiStrWithColon)
GetImageDataWithColon(valMap, emojiStrWithColon) ==
    GetImageData(valMap, StripColons(emojiStrWithColon))

\* getEmojiByName without toLowerCase.
GetEmojiByName_NoLower(valMap, emojiStr) == MapGet(valMap, emojiStr)

\* getEmojiByName(emojiStr)
GetEmojiByName(valMap, emojiStr) == MapGet(valMap, ToLowerCase(emojiStr))

\* hasSkinTone that misses 'skin-tone-' at the start of the string.
HasSkinTone_NotAtStart(skinTone) ==
    skinTone # Null /\ IndexOf(skinTone[1], SkinToneLit) > 0

\* hasSkinTone(skinTone); Null is an absent argument.
HasSkinTone(skinTone) ==
    skinTone # Null /\ IndexOf(skinTone[1], SkinToneLit) > -1

\* Array.prototype.slice(0, end)
Slice0(seq, end) ==
    LET e == IF end < 0 THEN (IF Len(seq) + end < 0 THEN 0 ELSE Len(seq) + end)
             ELSE IF end > Len(seq) THEN Len(seq) ELSE end
    IN  SubSeq(seq, 1, e)

\* searchEmoji that lowercases the query as getEmojiByName does.
SearchEmoji_Lowercased(es, emojiStr, limit) ==
    LET all == [i \in 1..Len(es) |->
                   [index |-> IndexOf(es[i].short_name, ToLowerCase(emojiStr)),
                    emoji |-> es[i]]]
        found == SelectSeq(all, LAMBDA a :
                     a.index > -1 /\ ~HasSkinTone(Some(a.emoji.short_name)))
        byLength == StableSort(found,
                        [i \in 1..Len(found) |-> Len(found[i].emoji.short_name)])
        byIndex == StableSort(byLength,
                        [i \in 1..Len(byLength) |-> byLength[i].index])
    IN  Slice0([i \in 1..Len(byIndex) |-> byIndex[i].emoji], limit)

\* searchEmoji with the two sorts in the opposite order.
SearchEmoji_IndexThenLength(es, emojiStr, limit) ==
    LET all == [i \in 1..Len(es) |->
                   [index |-> IndexOf(es[i].short_name, emojiStr), emoji |-> es[i]]]
        found == SelectSeq(all, LAMBDA a :
                     a.index > -1 /\ ~HasSkinTone(Some(a.emoji.short_name)))
        byIndex == StableSort(found,
                        [i \in 1..Len(found) |-> found[i].index])
        byLength == StableSort(byIndex,
                        [i \in 1..Len(byIndex) |-> Len(byIndex[i].emoji.short_name)])
    IN  Slice0([i \in 1..Len(byLength) |-> byLength[i].emoji], limit)

\* searchEmoji(emojiStr, limit) over the dataset es.
SearchEmoji(es, emojiStr, limit) ==
    LET all == [i \in 1..Len(es) |->
                   [index |-> IndexOf(es[i].short_name, emojiStr), emoji |-> es[i]]]
        found == SelectSeq(all, LAMBDA a :
                     a.index > -1 /\ ~HasSkinTone(Some(a.emoji.short_name)))
        byLength == StableSort(found,
                        [i \in 1..Len(found) |-> Len(found[i].emoji.short_name)])
        byIndex == StableSort(byLength,
                        [i \in 1..Len(byLength) |-> byLength[i].index])
    IN  Slice0([i \in 1..Len(byIndex) |-> byIndex[i].emoji], limit)

\* convertUniToStr that looks up the whole match.
ConvertUniToStr_WholeMatch(uniMap, emojiUni, withoutSkinToneUni) ==
    LET emoji == MapGet(uniMap, emojiUni)
    IN  IF emoji # Null THEN <<":">> \o emoji[1].short_name \o <<":">>
        ELSE emojiUni

\* convertUniToStr(emojiUni, withoutSkinToneUni) over the character index.
ConvertUniToStr(uniMap, emojiUni, withoutSkinToneUni) ==
    LET emoji == MapGet(uniMap, withoutSkinToneUni)
    IN  IF emoji # Null THEN <<":">> \o emoji[1].short_name \o <<":">>
        ELSE emojiUni

\* getVariationEmojis()
GetVariationEmojis(es) == SelectSeq(es, LAMBDA e : e.skin_variations # Null)

\* A number of the dataset as a fraction.
Num(n) == Frac(n, 1)

\* getSkinInfo that takes every string given for a skin tone.
GetSkinInfo_AnyString(valMap, emoji, skinTone) ==
    IF skinTone # Null
    THEN LET skinEmoji == MapGet(valMap, skinTone[1])
             pos == FindImage(emoji, skinEmoji)
         IN  [sheet_x |-> pos.x,
              sheet_y |-> pos.y,
              unified |-> emoji.unified,
              short_name |-> skinTone[1],
              image |-> pos.image]
    ELSE [sheet_x |-> Num(emoji.sheet_x),
          sheet_y |-> Num(emoji.sheet_y),
          unified |-> emoji.unified,
          short_name |-> emoji.short_name,
          image |-> emoji.image]

\* getSkinInfo(emoji, skinTone?); skinTone is Null when it is not given.
GetSkinInfo(valMap, emoji, skinTone) ==
    IF skinTone # Null /\ HasSkinTone(skinTone)
    THEN LET skinEmoji == MapGet(valMap, skinTone[1])
             pos == FindImage(emoji, skinEmoji)
         IN  [sheet_x |-> pos.x,
              sheet_y |-> pos.y,
              unified |-> emoji.unified,
              short_name |-> skinTone[1],
              image |-> pos.image]
    ELSE [sheet_x |-> Num(emoji.sheet_x),
          sheet_y |-> Num(emoji.sheet_y),
          unified |-> emoji.unified,
          short_name |-> emoji.short_name,
          image |-> emoji.image]

(***************************************************************************)
(* The regular expression (alt1|alt2|...)([\u{DFFB}-\u{DFFF}])? with the   *)
(* flags g and u.  With the u flag the text is matched code point by code  *)
(* point: a surrogate pair is one character and is never split.            *)
(***************************************************************************)
HighSurrogates == {"D83C", "D83D", "D83E"}
LowSurrogates == {"DC4B", "DC4D", "DC66", "DC68", "DD1D", "DDD1", "DE04",
                  "DFFB", "DFFC", "DFFD", "DFFE", "DFFF"}

\* The code units of the class [\u{DFFB}-\u{DFFF}].
ToneClass == {"DFFB", "DFFC", "DFFD", "DFFE", "DFFF"}

\* The literal an alternative of the pattern stands for: \* is the star.
PatternLiteral(alt) ==
    LET i == IndexOf(alt, <<"\\", "*">>)
    IN  IF i = -1 THEN alt
        ELSE SubSeq(alt, 1, i) \o SubSeq(alt, i + 2, Len(alt))

\* TRUE iff the literal lit matches the text at 0-based position i, a code
\* point boundary, and ends at a code point boundary.
MatchesAt(text, lit, i) ==
    /\ Len(lit) > 0
    /\ OccursAt(text, lit, i)
    /\ ~ /\ lit[Len(lit)] \in HighSurrogates
         /\ i + Len(lit) < Len(text)
         /\ text[i + Len(lit) + 1] \in LowSurrogates

\* Number of code units of the code point of text at 0-based position i.
CodePointWidth(text, i) ==
    IF /\ text[i + 1] \in HighSurrogates
       /\ i + 1 < Len(text)
       /\ text[i + 2] \in LowSurrogates
    THEN 2 ELSE 1

\* The replacement with a pattern whose optional class takes a whole
\* skin-tone modifier U+1F3FB..U+1F3FF.
RECURSIVE ReplaceFrom_ConsumesModifier(_, _, _, _)
ReplaceFrom_ConsumesModifier(regex, uniMap, text, i) ==
    IF i >= Len(text) THEN <<>>
    ELSE LET alts == {k \in 1..Len(regex) :
                         MatchesAt(text, PatternLiteral(regex[k]), i)}
         IN  IF alts = {}
             THEN LET w == CodePointWidth(text, i)
                  IN  SubSeq(text, i + 1, i + w)
                        \o ReplaceFrom_ConsumesModifier(regex, uniMap, text, i + w)
             ELSE LET k == CHOOSE a \in alts : \A b \in alts : a <= b
                      p1 == PatternLiteral(regex[k])
                      j == i + Len(p1)
                      tone == IF /\ j + 1 < Len(text)
                                 /\ text[j + 1] = "D83C"
                                 /\ text[j + 2] \in ToneClass
                              THEN 2 ELSE 0
                      m == SubSeq(text, i + 1, j + tone)
                  IN  ConvertUniToStr(uniMap, m, p1)
                        \o ReplaceFrom_ConsumesModifier(regex, uniMap, text, j + tone)

\* text.replace(regex, (m, p1) => convertUniToStr(m, p1)) from 0-based
\* position i on: the first alternative of the pattern that matches wins,
\* then the optional class takes one more code point if it can.
RECURSIVE ReplaceFrom(_, _, _, _)
ReplaceFrom(regex, uniMap, text, i) ==
    IF i >= Len(text) THEN <<>>
    ELSE LET alts == {k \in 1..Len(regex) :
                         MatchesAt(text, PatternLiteral(regex[k]), i)}
         IN  IF alts = {}
             THEN LET w == CodePointWidth(text, i)
                  IN  SubSeq(text, i + 1, i + w)
                        \o ReplaceFrom(regex, uniMap, text, i + w)
             ELSE LET k == CHOOSE a \in alts : \A b \in alts : a <= b
                      p1 == PatternLiteral(regex[k])
                      j == i + Len(p1)
                      tone == IF j < Len(text) /\ text[j + 1] \in ToneClass
                              THEN 1 ELSE 0
                      m == SubSeq(text, i + 1, j + tone)
                  IN  ConvertUniToStr(uniMap, m, p1)
                        \o ReplaceFrom(regex, uniMap, text, j + tone)

\* replaceEmojiToStr(text)
ReplaceEmojiToStr(regex, uniMap, text) == ReplaceFrom(regex, uniMap, text, 0)

(***************************************************************************)
(* The arguments the callers pass.                                         *)
(***************************************************************************)
\* Plain names: known aliases, known aliases in another letter case,
\* names with a colon of their own and unknown names.
PlainNames ==
    { smileName, <<"S", "M", "I", "L", "E">>, <<"W", "a", "v", "e">>, waveName, plusOneName, thumbsupName,
      manName, grinName, tone2Name, tone3Name, holdingHandsName,
      <<":", ")">>, <<":">> \o smileName, waveName \o <<":">>, <<>>, <<"x">> }

\* The digits N of a suffix ::skin-tone-N; the last two are a suffix with
\* two digits and a suffix with no digit.
ToneDigits == { <<"1">>, <<"2">>, <<"3">>, <<"9">>, <<"1", "0">>, <<>> }

\* The compound form <name>::skin-tone-<N>.
Compound(name, n) == name \o ColonSkinToneLit \o n

\* The queries of getImageData, each with the parts it is made of.
ImageQueries ==
    { <<name>> : name \in PlainNames } \cup (PlainNames \X ToneDigits)

QueryText(q) == IF Len(q) = 1 THEN q[1] ELSE Compound(q[1], q[2])

\* The substrings searched for.
SearchWords == { <<>>, <<"s">>, <<"S">>, <<"a">>, <<"e">>, <<"m">>, <<"n">>,
                 <<"s", "k", "i", "n">> }

tone9Name == SkinToneLit \o <<"9">>
okHandTone5 == <<":", "o", "k", "_", "h", "a", "n", "d">> \o ColonSkinToneLit \o <<"5", ":">>

\* The skinTone arguments of getSkinInfo; <<>> is a call without one.
SkinToneArgs == { <<>>, <<tone2Name>>, <<tone3Name>>, <<tone9Name>>,
                  <<smileName>> }

\* The arguments of hasSkinTone; <<>> is a call without one.
HasSkinToneArgs == { <<>>, <<okHandTone5>>, <<<<":", "o", "k", "_", "h", "a", "n", "d", ":">>>>,
                     <<tone2Name>>, <<SkinToneLit>>, <<smileName>>,
                     <<<<"s", "k", "i", "n", "-", "t", "o", "n", "e">>>>,
                     <<<<"x">> \o ColonSkinToneLit \o <<"5">>>>, <<<<>>>> }

\* The pieces the texts of replaceEmojiToStr are made of: emoji characters,
\* skin-tone modifier characters, a letter and a lone low surrogate.
Pieces == { smileChar, waveChar, manChar, manBoyChar, starChar, tone2Char,
            tone3Char, <<"a">>, <<"DFFB">> }

PieceLists == UNION { [1..n -> Pieces] : n \in 0..MaxPieces }

RECURSIVE Flatten(_)
Flatten(ps) == IF ps = <<>> THEN <<>> ELSE Head(ps) \o Flatten(Tail(ps))

(***************************************************************************)
(* The calls.  A call runs to completion; Return is the caller dropping    *)
(* the result before its next call.                                        *)
(***************************************************************************)
CallGetEmojiByName ==
    /\ op = "idle"
    /\ \E name \in PlainNames :
          /\ arg' = name
          /\ parts' = <<name>>
          /\ result' = GetEmojiByName(emojiValMap, name)
    /\ op' = "getEmojiByName"
    /\ UNCHANGED <<index, limitArg, emojiArg>>

CallGetImageData ==
    /\ op = "idle"
    /\ \E q \in ImageQueries :
          /\ arg' = QueryText(q)
          /\ parts' = q
          /\ result' = GetImageData(emojiValMap, QueryText(q))
    /\ op' = "getImageData"
    /\ UNCHANGED <<index, limitArg, emojiArg>>

CallGetImageDataWithColon ==
    /\ op = "idle"
    /\ \E q \in ImageQueries :
          /\ arg' = <<":">> \o QueryText(q) \o <<":">>
          /\ parts' = q
          /\ result' = GetImageDataWithColon(emojiValMap,
                                             <<":">> \o QueryText(q) \o <<":">>)
    /\ op' = "getImageDataWithColon"
    /\ UNCHANGED <<index, limitArg, emojiArg>>

\* searchEmoji that sorts the dataset itself by name length before it
\* searches.
CallSearchEmoji_SortsDataset ==
    /\ op = "idle"
    /\ emojis' = StableSort(emojis,
                     [i \in 1..Len(emojis) |-> Len(emojis[i].short_name)])
    /\ \E q \in SearchWords, limit \in (0 - 1)..MaxLimit :
          /\ arg' = q
          /\ limitArg' = limit
          /\ result' = SearchEmoji(emojis', q, limit)
    /\ op' = "searchEmoji"
    /\ parts' = <<>>
    /\ UNCHANGED <<emojiValMap, emojiUnifiedValMap, emojiCategoryLookUp,
                   emojiUnicodeRegex, emojiArg>>

CallSearchEmoji ==
    /\ op = "idle"
    /\ \E q \in SearchWords, limit \in (0 - 1)..MaxLimit :
          /\ arg' = q
          /\ limitArg' = limit
          /\ result' = SearchEmoji(emojis, q, limit)
    /\ op' = "searchEmoji"
    /\ parts' = <<>>
    /\ UNCHANGED <<index, emojiArg>>

CallReplaceEmojiToStr ==
    /\ op = "idle"
    /\ \E ps \in PieceLists :
          /\ arg' = Flatten(ps)
          /\ parts' = ps
          /\ result' = ReplaceEmojiToStr(emojiUnicodeRegex, emojiUnifiedValMap,
                                         Flatten(ps))
    /\ op' = "replaceEmojiToStr"
    /\ UNCHANGED <<index, limitArg, emojiArg>>

CallGetSkinInfo ==
    /\ op = "idle"
    /\ \E i \in 1..Len(Pool), skinTone \in SkinToneArgs :
          /\ emojiArg' = Some(Pool[i])
          /\ parts' = skinTone
          /\ arg' = IF skinTone = <<>> THEN <<>> ELSE skinTone[1]
          /\ result' = Some(GetSkinInfo(emojiValMap, Pool[i], skinTone))
    /\ op' = "getSkinInfo"
    /\ UNCHANGED <<index, limitArg>>

CallHasSkinTone ==
    /\ op = "idle"
    /\ \E skinTone \in HasSkinToneArgs :
          /\ parts' = skinTone
          /\ arg' = IF skinTone = <<>> THEN <<>> ELSE skinTone[1]
          /\ result' = Some(HasSkinTone(skinTone))
    /\ op' = "hasSkinTone"
    /\ UNCHANGED <<index, limitArg, emojiArg>>

CallGetVariationEmojis ==
    /\ op = "idle"
    /\ op' = "getVariationEmojis"
    /\ result' = GetVariationEmojis(emojis)
    /\ UNCHANGED <<index, arg, limitArg, emojiArg, parts>>

\* The answer of the index to the call the state records.
Answer ==
    CASE op = "getEmojiByName" -> GetEmojiByName(emojiValMap, arg)
      [] op = "getImageData" -> GetImageData(emojiValMap, arg)
      [] op = "getImageDataWithColon" -> GetImageDataWithColon(emojiValMap, arg)
      [] op = "searchEmoji" -> SearchEmoji(emojis, arg, limitArg)
      [] op = "replaceEmojiToStr" ->
             ReplaceEmojiToStr(emojiUnicodeRegex, emojiUnifiedValMap, arg)
      [] op = "getSkinInfo" -> Some(GetSkinInfo(emojiValMap, emojiArg[1], parts))
      [] op = "hasSkinTone" -> Some(HasSkinTone(parts))
      [] op = "getVariationEmojis" -> GetVariationEmojis(emojis)

\* The caller makes the call it made last once more, with the same
\* arguments.
Repeat ==
    /\ op # "idle"
    /\ result' = Answer
    /\ UNCHANGED <<index, op, arg, limitArg, emojiArg, parts>>

Return ==
    /\ op # "idle"
    /\ op' = "idle"
    /\ arg' = <<>>
    /\ limitArg' = 0
    /\ emojiArg' = Null
    /\ parts' = <<>>
    /\ result' = Null
    /\ UNCHANGED index

Init ==
    /\ emojis \in Datasets
    /\ emojiValMap = InitValMap(emojis, Len(emojis))
    /\ emojiUnifiedValMap = InitUnifiedValMap(emojis, Len(emojis))
    /\ emojiCategoryLookUp = InitCategoryLookUp(emojis)
    /\ emojiUnicodeRegex = InitUnified(emojis)
    /\ op = "idle"
    /\ arg = <<>>
    /\ limitArg = 0
    /\ emojiArg = Null
    /\ parts = <<>>
    /\ result = Null


Next ==
    \/ CallGetEmojiByName
    \/ CallGetImageData
    \/ CallGetImageDataWithColon
    \/ CallSearchEmoji
    \/ CallReplaceEmojiToStr
    \/ CallGetSkinInfo
    \/ CallHasSkinTone
    \/ CallGetVariationEmojis
    \/ Repeat
    \/ Return

Spec == Init /\ [][Next]_vars

(***************************************************************************)
(* Properties.                                                             *)
(***************************************************************************)
Keys == DOMAIN emojiValMap

\* TRUE iff n is, up to letter case, an alias of some record of the dataset.
KnownAlias(n) ==
    \E i \in 1..Len(emojis) : \E k \in 1..Len(emojis[i].short_names) :
        ToLowerCase(emojis[i].short_names[k]) = ToLowerCase(n)

\* C1: getEmojiByName of a known alias, in any letter case, returns a
\* record whose short_names contains the alias when compared without
\* regard to case; it is never not-found.
C1_KnownAliasFound ==
    (op = "getEmojiByName" /\ KnownAlias(arg)) =>
        /\ result # Null
        /\ \E k \in 1..Len(result[1].short_names) :
              ToLowerCase(result[1].short_names[k]) = ToLowerCase(arg)

C1_Witness ==
    /\ op = "getEmojiByName"
    /\ arg # ToLowerCase(arg)
    /\ KnownAlias(arg)
    /\ result # Null

IsPlain(q) == IndexOf(q, ColonSkinToneLit) = -1

\* C2 as stated: for every plain name, getImageDataWithColon(':' + name +
\* ':') equals getImageData(name).
C2_AnyPlainName ==
    (op = "getImageDataWithColon" /\ Len(parts) = 1 /\ IsPlain(parts[1])) =>
        result = GetImageData(emojiValMap, parts[1])

NoOuterColon(name) ==
    name = <<>> \/ (name[1] # ":" /\ name[Len(name)] # ":")

\* C2 amended: for every plain name that neither begins nor ends with a
\* colon, getImageDataWithColon(':' + name + ':') equals getImageData(name).
C2_NameWithoutOuterColon ==
    (/\ op = "getImageDataWithColon"
     /\ Len(parts) = 1
     /\ IsPlain(parts[1])
     /\ NoOuterColon(parts[1])) =>
        result = GetImageData(emojiValMap, parts[1])

C2_Witness ==
    /\ op = "getImageDataWithColon"
    /\ parts = <<smileName>>
    /\ arg = <<":">> \o smileName \o <<":">>
    /\ result # Null

\* TRUE iff the fraction f is n * 100 / (count - 1).
Scaled(f, n, count) == f.num * (count - 1) = 100 * n * f.den

\* C3: for a known base name whose record has a variation under the
\* unified code of modifier skin-tone-N, getImageData(base::skin-tone-N)
\* returns the image and the scaled sheet position of that variation.
C3_VariationImage ==
    (/\ op = "getImageData"
     /\ Len(parts) = 2
     /\ ToLowerCase(parts[1]) \in Keys
     /\ (SkinToneLit \o parts[2]) \in Keys
     /\ emojiValMap[ToLowerCase(parts[1])].skin_variations # Null
     /\ emojiValMap[SkinToneLit \o parts[2]].unified
           \in DOMAIN emojiValMap[ToLowerCase(parts[1])].skin_variations[1]) =>
        LET base == emojiValMap[ToLowerCase(parts[1])]
            v == base.skin_variations[1][emojiValMap[SkinToneLit \o parts[2]].unified]
        IN  /\ result # Null
            /\ result[1].image = v.image
            /\ Scaled(result[1].x, v.sheet_x, sheetColumns)
            /\ Scaled(result[1].y, v.sheet_y, sheetRows)

C3_Witness ==
    /\ op = "getImageData"
    /\ parts = <<waveName, <<"2">>>>
    /\ tone2Name \in Keys
    /\ result # Null
    /\ result[1].image = "1f44b-1f3fb.png"

\* The 0-based position of the last occurrence of pat in s, or -1.
LastIndexOf(s, pat) ==
    LET hits == {i \in 0..Len(s) : OccursAt(s, pat, i)}
    IN  IF hits = {} THEN -1
        ELSE CHOOSE i \in hits : \A j \in hits : j <= i

\* The base name of a query: the query itself in plain form, the part
\* before the suffix ::skin-tone-N in compound form.
BaseName(q) ==
    IF IsPlain(q) THEN q ELSE SubSeq(q, 1, LastIndexOf(q, ColonSkinToneLit))

\* A query in plain form or in the compound form <name>::skin-tone-<N> with
\* one digit N.
PlainOrCompound == Len(parts) = 1 \/ Len(parts[2]) = 1

\* C4: a query, plain or of the form <name>::skin-tone-<N>, whose base name
\* is, in lower case, no key of the name index gets not-found from
\* getImageData and from getImageDataWithColon (the token without its outer
\* colons); so does every string that is no key from getEmojiByName.
C4_UnknownNotFound ==
    /\ (op = "getImageData" /\ PlainOrCompound
           /\ ToLowerCase(BaseName(arg)) \notin Keys) =>
           result = Null
    /\ (op = "getImageDataWithColon" /\ PlainOrCompound
           /\ ToLowerCase(BaseName(StripColons(arg))) \notin Keys) =>
           result = Null
    /\ (op = "getEmojiByName" /\ ToLowerCase(arg) \notin Keys) =>
           result = Null

C4_Witness ==
    /\ op = "getImageData"
    /\ parts = << <<":", ")">>, <<"2">> >>
    /\ tone2Name \in Keys
    /\ result = Null

\* C5: for a known plain name whose record is not of category 'Skin Tones'
\* getImageData returns the sheet sizes 100 * columns and 100 * rows (6100),
\* the record's image and its sheet position times 100 / (count - 1).
C5_PlainDescriptor ==
    (/\ op = "getImageData"
     /\ Len(parts) = 1
     /\ ToLowerCase(parts[1]) \in Keys
     /\ emojiValMap[ToLowerCase(parts[1])].category # "Skin Tones") =>
        LET e == emojiValMap[ToLowerCase(parts[1])]
        IN  /\ result # Null
            /\ result[1].sheetSizeX = 100 * sheetColumns
            /\ result[1].sheetSizeY = 100 * sheetRows
            /\ result[1].sheetSizeX = 6100
            /\ result[1].image = e.image
            /\ result[1].x.num * 60 = 100 * e.sheet_x * result[1].x.den
            /\ result[1].y.num * 60 = 100 * e.sheet_y * result[1].y.den
            /\ Scaled(result[1].x, e.sheet_x, sheetColumns)
            /\ Scaled(result[1].y, e.sheet_y, sheetRows)

C5_Witness ==
    /\ op = "getImageData"
    /\ parts = <<smileName>>
    /\ result # Null
    /\ result[1].x = [num |-> 160, den |-> 3]
    /\ result[1].image = "1f604.png"

\* The position of record e in the dataset.
Position(e) == CHOOSE i \in 1..Len(emojis) : emojis[i] = e

\* C6: the result of searchEmoji is ordered by the position of the first
\* occurrence of the query in short_name, then by the length of short_name,
\* then by dataset order.
C6_SearchOrder ==
    op = "searchEmoji" =>
        \A i, j \in 1..Len(result) : i < j =>
            LET a == result[i]
                b == result[j]
                ia == IndexOf(a.short_name, arg)
                ib == IndexOf(b.short_name, arg)
            IN  \/ ia < ib
                \/ ia = ib /\ Len(a.short_name) < Len(b.short_name)
                \/ ia = ib /\ Len(a.short_name) = Len(b.short_name)
                           /\ Position(a) < Position(b)

C6_Witness ==
    /\ op = "searchEmoji"
    /\ Len(result) = 2
    /\ IndexOf(result[1].short_name, arg) = IndexOf(result[2].short_name, arg)
    /\ Len(result[1].short_name) < Len(result[2].short_name)
    /\ Position(result[1]) > Position(result[2])

\* C7: searchEmoji returns at most limit records (none when limit is not
\* positive).
C7_AtMostLimit ==
    op = "searchEmoji" => (Len(result) <= limitArg \/ Len(result) = 0)

(***************************************************************************)
(* replaceEmojiToStr, stated over the pieces the text is made of.          *)
(***************************************************************************)
Known(p) == p \in DOMAIN emojiUnifiedValMap

\* A piece as the claims expect it in the output.
Render(p) ==
    IF Known(p) THEN <<":">> \o emojiUnifiedValMap[p].short_name \o <<":">>
    ELSE p

\* A skin-tone modifier character U+1F3FB..U+1F3FF, a surrogate pair.
IsModifierChar(p) == Len(p) = 2 /\ p[1] = "D83C" /\ p[2] \in ToneClass

\* A low surrogate U+DFFB..U+DFFF on its own.
IsLoneTone(p) == Len(p) = 1 /\ p[1] \in ToneClass

\* The tone N of the modifier character with the given low surrogate.
ToneOf == [DFFB |-> "2", DFFC |-> "3", DFFD |-> "4", DFFE |-> "5", DFFF |-> "6"]

\* 0-based position in the text at which piece k starts.
StartOf(ps, k) == Len(Flatten(SubSeq(ps, 1, k - 1)))

\* Every occurrence of a known character in the text is one of the pieces:
\* no known character lies inside a piece or inside a longer known one.
NoOverlap(ps) ==
    LET text == Flatten(ps)
        starts == [k \in 1..Len(ps) |-> StartOf(ps, k)]
    IN  \A c \in DOMAIN emojiUnifiedValMap :
            \A i \in 0..(Len(text) - Len(c)) :
                OccursAt(text, c, i) =>
                    \E k \in 1..Len(ps) : starts[k] = i /\ ps[k] = c

NoModifierAfterKnown(ps) ==
    \A k \in 1..(Len(ps) - 1) : Known(ps[k]) => ~IsModifierChar(ps[k + 1])

RenderAt(ps, k) ==
    IF k > 1 /\ Known(ps[k - 1]) /\ IsLoneTone(ps[k]) THEN <<>>
    ELSE Render(ps[k])

C9_BaseThenTone ==
    (/\ op = "replaceEmojiToStr"
     /\ Len(parts) = 2
     /\ Known(parts[1])
     /\ IsModifierChar(parts[2])
     /\ Known(parts[2])
     /\ emojiUnifiedValMap[parts[2]].short_name
           = SkinToneLit \o <<ToneOf[parts[2][2]]>>) =>
        result = <<":">> \o emojiUnifiedValMap[parts[1]].short_name
                    \o ColonSkinToneLit \o <<ToneOf[parts[2][2]]>> \o <<":">>

C9_Witness ==
    /\ op = "replaceEmojiToStr"
    /\ parts = <<waveChar, tone2Char>>
    /\ result = <<":">> \o waveName \o <<":", ":">> \o tone2Name \o <<":">>

C11_CompositeKey ==
    (/\ op = "getSkinInfo"
     /\ parts # <<>>
     /\ parts[1] \in { SkinToneLit \o <<d>> : d \in Digits }
     /\ parts[1] \in Keys
     /\ emojiArg[1].skin_variations # Null
     /\ emojiValMap[parts[1]].unified \notin DOMAIN emojiArg[1].skin_variations[1]
     /\ Twice(emojiValMap[parts[1]].unified)
           \in DOMAIN emojiArg[1].skin_variations[1]) =>
        LET v == emojiArg[1].skin_variations[1][Twice(emojiValMap[parts[1]].unified)]
        IN  /\ result[1].image = v.image
            /\ result[1].unified = emojiArg[1].unified
            /\ result[1].short_name = parts[1]

C11_Witness ==
    /\ op = "getSkinInfo"
    /\ emojiArg = Some(Pool[9])
    /\ parts = <<tone2Name>>
    /\ tone2Name \in Keys
    /\ U2 \notin DOMAIN Pool[9].skin_variations[1]
    /\ result[1].image = Pool[9].skin_variations[1][Twice(U2)].image
    /\ result[1].short_name = tone2Name

\* The six modifier names skin-tone-1 .. skin-tone-6.
ModifierNames == { SkinToneLit \o <<d>> : d \in {"1", "2", "3", "4", "5", "6"} }

\* TRUE iff pat occurs in s at some position.
Contains(s, pat) == \E i \in 0..Len(s) : OccursAt(s, pat, i)

\* The fields of a record that getSkinInfo returns, as the record has them.
OwnInfo(e) ==
    [sheet_x |-> Num(e.sheet_x),
     sheet_y |-> Num(e.sheet_y),
     unified |-> e.unified,
     short_name |-> e.short_name,
     image |-> e.image]

\* C12 as stated: when the skinTone argument is absent or is none of the
\* six modifier names, getSkinInfo returns the record's own sheet_x,
\* sheet_y, unified, short_name and image.
C12_NotAModifierName ==
    (op = "getSkinInfo" /\ (parts = <<>> \/ parts[1] \notin ModifierNames)) =>
        result[1] = OwnInfo(emojiArg[1])

\* C12: when the skinTone argument is absent or does not contain the
\* substring 'skin-tone-', getSkinInfo returns the record's own sheet_x,
\* sheet_y, unified, short_name and image: grid coordinates, not scaled
\* ones.
C12_NoSkinToneSubstring ==
    (op = "getSkinInfo"
        /\ (parts = <<>> \/ ~Contains(parts[1], SkinToneLit))) =>
        result[1] = OwnInfo(emojiArg[1])

C12_Witness ==
    /\ op = "getSkinInfo"
    /\ emojiArg = Some(Pool[2])
    /\ parts = <<smileName>>
    /\ result[1].sheet_x = Num(13)
    /\ result[1].sheet_y = Num(40)
    /\ result[1].short_name = waveName
    /\ result[1].image = "1f44b.png"

\* C13: hasSkinTone(s) is true exactly when the ten code units 'skin-tone-'
\* stand somewhere in s, and it is false when the argument is absent.
C13_HasSkinTone ==
    op = "hasSkinTone" =>
        /\ parts = <<>> => result = Some(FALSE)
        /\ parts # <<>> =>
              result = Some(\E i \in 1..Len(parts[1]) :
                               /\ i + 9 <= Len(parts[1])
                               /\ SubSeq(parts[1], i, i + 9) =
                                     <<"s", "k", "i", "n", "-", "t", "o", "n", "e", "-">>)

C13_Witness ==
    /\ op = "hasSkinTone"
    /\ parts = <<okHandTone5>>
    /\ result = Some(TRUE)

C13_WitnessFalse ==
    /\ op = "hasSkinTone"
    /\ parts = <<<<":", "o", "k", "_", "h", "a", "n", "d", ":">>>>
    /\ result = Some(FALSE)

\* A step that makes once more the call the state records, with the same
\* arguments.
SameCallAgain ==
    /\ op # "idle"
    /\ op' = op
    /\ arg' = arg
    /\ limitArg' = limitArg
    /\ emojiArg' = emojiArg
    /\ parts' = parts

\* C14: no call changes the dataset order, the name index, the character
\* index, the category index or the matcher, and a call made once more with
\* the same arguments returns the same result.
C14_NoMutation ==
    [][/\ emojis' = emojis
       /\ emojiValMap' = emojiValMap
       /\ emojiUnifiedValMap' = emojiUnifiedValMap
       /\ emojiCategoryLookUp' = emojiCategoryLookUp
       /\ emojiUnicodeRegex' = emojiUnicodeRegex
       /\ SameCallAgain => result' = result]_vars

\* The state after a search that found two records in a dataset that is
\* not in the order of the result.
C14_Witness ==
    /\ op = "searchEmoji"
    /\ Len(emojis) = 2
    /\ Len(result) = 2
    /\ result[1] = emojis[2]
    /\ result[2] = emojis[1]
    /\ emojiValMap = InitValMap(emojis, Len(emojis))

\* C15: a query of getImageData, plain or compound, whose base name maps to
\* a record of category 'Skin Tones' gets not-found.
C15_ModifierNeverBase ==
    (/\ op = "getImageData"
     /\ ToLowerCase(parts[1]) \in Keys
     /\ emojiValMap[ToLowerCase(parts[1])].category = "Skin Tones") =>
        result = Null

\* The plain form of C15, which the code checks.
C15_PlainModifierNotFound ==
    (/\ op = "getImageData"
     /\ Len(parts) = 1
     /\ ToLowerCase(parts[1]) \in Keys
     /\ emojiValMap[ToLowerCase(parts[1])].category = "Skin Tones") =>
        result = Null

\* The compound query skin-tone-2::skin-tone-3 resolved to the image of the
\* modifier skin-tone-2.
C15_CompoundResolved ==
    /\ op = "getImageData"
    /\ parts = <<tone2Name, <<"3">>>>
    /\ result # Null
    /\ result[1].image = "1f3fb.png"

\* A compound query whose base name is known and whose suffix names no
\* modifier of the dataset: no digit, or digits that are no modifier's.
MalformedSuffix ==
    /\ op = "getImageData"
    /\ Len(parts) = 2
    /\ (SkinToneLit \o parts[2]) \notin Keys
    /\ ToLowerCase(parts[1]) \in Keys

\* C16 as stated: for such a query getImageData returns a descriptor with
\* coordinates (0, 0) and an empty image string.
C16_ZeroedDescriptor ==
    MalformedSuffix =>
        /\ result # Null
        /\ result[1].x = Frac(0, 1)
        /\ result[1].y = Frac(0, 1)
        /\ result[1].image = ""

\* C16: for such a query getImageData looks up the query without its last
\* 13 code units, which is the base name when the suffix has exactly one
\* digit, and returns that record's own image and scaled position, or
\* not-found when the cut query is no known name; it never returns the
\* zeroed descriptor.
C16_BaseDescriptor ==
    MalformedSuffix =>
        LET q == ToLowerCase(arg)
            cut == SubSeq(q, 1, Len(q) - 13)
        IN  /\ Len(parts[2]) = 1 => cut = ToLowerCase(parts[1])
            /\ cut \notin Keys => result = Null
            /\ cut \in Keys =>
                  /\ result # Null
                  /\ result[1].image = emojiValMap[cut].image
                  /\ result[1].image # ""
                  /\ Scaled(result[1].x, emojiValMap[cut].sheet_x, sheetColumns)
                  /\ Scaled(result[1].y, emojiValMap[cut].sheet_y, sheetRows)

C16_Witness ==
    /\ op = "getImageData"
    /\ parts = <<waveName, <<"9">>>>
    /\ result # Null
    /\ result[1].image = "1f44b.png"
    /\ result[1].x = Frac(1300, 60)

C16_WitnessNoDigit ==
    /\ op = "getImageData"
    /\ parts = <<waveName, <<>>>>
    /\ waveName \in Keys
    /\ result = Null

\* C17: when the modifier record skin-tone-N is in the dataset and the base
\* record has skin_variations with an entry neither under the modifier's
\* unified code U nor under U-U, getImageData(base::skin-tone-N) returns
\* the descriptor with x = 0, y = 0, image = '' and the usual sheet sizes:
\* it is not not-found and not the base record's image.
C17_MissingVariation ==
    (/\ op = "getImageData"
     /\ Len(parts) = 2
     /\ Len(parts[2]) = 1
     /\ ToLowerCase(parts[1]) \in Keys
     /\ (SkinToneLit \o parts[2]) \in Keys
     /\ emojiValMap[ToLowerCase(parts[1])].skin_variations # Null
     /\ emojiValMap[SkinToneLit \o parts[2]].unified
           \notin DOMAIN emojiValMap[ToLowerCase(parts[1])].skin_variations[1]
     /\ Twice(emojiValMap[SkinToneLit \o parts[2]].unified)
           \notin DOMAIN emojiValMap[ToLowerCase(parts[1])].skin_variations[1]) =>
        /\ result # Null
        /\ result[1].x = [num |-> 0, den |-> 1]
        /\ result[1].y = [num |-> 0, den |-> 1]
        /\ result[1].image = ""
        /\ result[1].image # emojiValMap[ToLowerCase(parts[1])].image
        /\ result[1].sheetSizeX = 6100
        /\ result[1].sheetSizeY = 6100

C17_Witness ==
    /\ op = "getImageData"
    /\ parts = <<holdingHandsName, <<"3">>>>
    /\ holdingHandsName \in Keys
    /\ tone3Name \in Keys
    /\ result # Null
    /\ result[1].image = ""

\* The positions of the dataset records whose short_name contains q, letter
\* case kept, and does not contain 'skin-tone-'.
Matches(q) ==
    { i \in 1..Len(emojis) :
        /\ Contains(emojis[i].short_name, q)
        /\ ~Contains(emojis[i].short_name, SkinToneLit) }

\* C18: searchEmoji(q, limit) with limit at least the number of matches
\* returns exactly the dataset records whose short_name contains q as a
\* case-sensitive substring and does not contain 'skin-tone-', each once.
C18_ExactlyTheMatches ==
    (op = "searchEmoji" /\ limitArg >= Cardinality(Matches(arg))) =>
        /\ Len(result) = Cardinality(Matches(arg))
        /\ \A i \in Matches(arg) :
              Cardinality({k \in 1..Len(result) : result[k] = emojis[i]}) = 1
        /\ \A k \in 1..Len(result) :
              \E i \in Matches(arg) : result[k] = emojis[i]

\* A search for 'e' that leaves out a record whose name does not contain
\* it, and a search for 'S' that finds nothing although smile is there.
C18_Witness ==
    /\ op = "searchEmoji"
    /\ arg = <<"e">>
    /\ Len(emojis) = 2
    /\ Len(result) = 1
    /\ result[1].short_name = smileName
    /\ limitArg >= 1

C18_WitnessCase ==
    /\ op = "searchEmoji"
    /\ arg = <<"S">>
    /\ emojis[1].short_name = smileName
    /\ limitArg >= 1
    /\ result = <<>>

C18_WitnessModifier ==
    /\ op = "searchEmoji"
    /\ arg = <<"s">>
    /\ Len(emojis) = 2
    /\ emojis[1].short_name = tone2Name
    /\ emojis[2].short_name = smileName
    /\ limitArg = 2
    /\ result = <<emojis[2]>>

\* The positions of the dataset records that list the alias n in
\* short_names, and of those whose char is c.
Listing(n) ==
    { i \in 1..Len(emojis) :
        \E k \in 1..Len(emojis[i].short_names) : emojis[i].short_names[k] = n }

WithChar(c) == { i \in 1..Len(emojis) : emojis[i].char = c }

\* The greatest element of a non-empty set of positions.
Last(S) == CHOOSE i \in S : \A j \in S : j <= i

\* C19: getEmojiByName of an alias that dataset records list returns the
\* last record of the dataset that lists it, and replaceEmojiToStr of a
\* text that is the char of dataset records gives the short_name of the
\* last record with that char between colons; duplicates are no error.
C19_LastWriterWins ==
    /\ (op = "getEmojiByName" /\ Listing(arg) # {}) =>
           result = Some(emojis[Last(Listing(arg))])
    /\ (op = "replaceEmojiToStr" /\ Len(parts) = 1 /\ WithChar(parts[1]) # {}) =>
           result = <<":">> \o emojis[Last(WithChar(parts[1]))].short_name \o <<":">>

\* smile and grin both list the alias smile: the later one is returned.
C19_Witness ==
    /\ op = "getEmojiByName"
    /\ arg = smileName
    /\ Cardinality(Listing(smileName)) = 2
    /\ result = Some(emojis[2])

\* smile and grin have the same char: the later one names it.
C19_WitnessChar ==
    /\ op = "replaceEmojiToStr"
    /\ parts = <<smileChar>>
    /\ Cardinality(WithChar(smileChar)) = 2
    /\ result = <<":">> \o emojis[2].short_name \o <<":">>

\* The categories that have an entry in the category index.
Categories == DOMAIN emojiCategoryLookUp

\* C20: the category index has an entry for exactly nine categories, the
\* ten of CategoryData without 'Skin Tones'; each entry is the list of the
\* dataset records of that category in dataset order, and no record of
\* category 'Skin Tones' is in any list.
C20_NineCategories ==
    /\ Cardinality(Categories) = 9
    /\ Cardinality({CategoryData[i] : i \in 1..Len(CategoryData)}) = 10
    /\ "Skin Tones" \notin Categories
    /\ Categories = {CategoryData[i] : i \in 1..Len(CategoryData)} \ {"Skin Tones"}
    /\ \A c \in Categories :
          /\ emojiCategoryLookUp[c] = SelectSeq(emojis, LAMBDA e : e.category = c)
          /\ \A k \in 1..Len(emojiCategoryLookUp[c]) :
                emojiCategoryLookUp[c][k].category # "Skin Tones"

\* What the index does have: an entry for each of the ten labels of
\* CategoryData, the list of the dataset records of that category in
\* dataset order.
C20_TenCategories ==
    /\ Cardinality(Categories) = 10
    /\ "Skin Tones" \notin Categories
    /\ "Component" \in Categories
    /\ \A c \in Categories :
          emojiCategoryLookUp[c] = SelectSeq(emojis, LAMBDA e : e.category = c)

\* A dataset whose modifier skin-tone-3, of category 'Component', is in a
\* list of the category index.
C20_ModifierListed ==
    /\ Len(emojiCategoryLookUp["Component"]) = 1
    /\ emojiCategoryLookUp["Component"][1].short_name = tone3Name

\* TRUE iff a is a proper prefix of b.
ProperPrefix(a, b) == Len(a) < Len(b) /\ SubSeq(b, 1, Len(a)) = a

\* TRUE iff some known character is a proper prefix of the piece p.
HasKnownPrefix(p) ==
    \E c \in DOMAIN emojiUnifiedValMap : ProperPrefix(c, p)

\* C21: in a text with a piece B that is a known character and starts with
\* a shorter known character A, replaceEmojiToStr gives ':' + short_name of
\* B + ':' for the whole of B, as for every other known piece; it does not
\* give the short name of A followed by the rest of B.
C21_LongestMatch ==
    (/\ op = "replaceEmojiToStr"
     /\ \E k \in 1..Len(parts) : Known(parts[k]) /\ HasKnownPrefix(parts[k])
     /\ \A k \in 1..Len(parts) : HasKnownPrefix(parts[k]) => Known(parts[k])) =>
        /\ result = Flatten([k \in 1..Len(parts) |-> RenderAt(parts, k)])
        /\ \A k \in 1..Len(parts) :
              (Known(parts[k]) /\ HasKnownPrefix(parts[k])) =>
                  \A c \in DOMAIN emojiUnifiedValMap :
                      ProperPrefix(c, parts[k]) =>
                          ~Contains(result,
                                <<":">> \o emojiUnifiedValMap[c].short_name \o <<":">>
                                  \o SubSeq(parts[k], Len(c) + 1, Len(parts[k])))

\* man comes before man-boy in the dataset and the text is the char of
\* man-boy: the whole of it is named.
C21_Witness ==
    /\ op = "replaceEmojiToStr"
    /\ parts = <<manBoyChar>>
    /\ Len(emojis) = 2
    /\ emojis[1].char = manChar
    /\ emojis[2].char = manBoyChar
    /\ result = <<":">> \o manBoyName \o <<":">>

====
